---- MODULE Spec2Model ----
(***************************************************************************)
(* Cursor pagination over a cw-storage-plus Map (cw-query).                *)
(*                                                                         *)
(* Three implementations are modelled, each from its source:               *)
(*   lib.rs    DefaultPage::keys / DefaultPage::into_pagination            *)
(*   query.rs  Page::keys        / Page::into_pagination                   *)
(*   prefix.rs PrefixPage::keys  / PrefixPage::into_pagination             *)
(*                                                                         *)
(* An Option<T> is a sequence of length at most one: None is <<>> and      *)
(* Some(x) is <<x>>.  A Vec is a sequence.  A Map is a function from the   *)
(* stored keys to the stored values; a flat map has integer keys, a        *)
(* composite map has keys <<prefix, suffix>> ordered lexicographically,    *)
(* as the storage orders their encodings.                                  *)
(***************************************************************************)
EXTENDS Integers, Sequences, FiniteSets, TLC

\* Model bounds.
MaxKey == 3        \* flat keys are 0..MaxKey
MaxPrefix == 1     \* prefixes of composite keys are 0..MaxPrefix
MaxSuffix == 1     \* suffixes of composite keys are 0..MaxSuffix
MaxQty == 2        \* a request's qty override is None or Some(0..MaxQty)
MaxLimit == 1      \* the const generic LIMIT of a request type is 0..MaxLimit
MaxNones == 2      \* calls of next() a caller makes on an exhausted iterator

Keys == 0..MaxKey
Prefixes == 0..MaxPrefix
Suffixes == 0..MaxSuffix
CompositeKeys == Prefixes \X Suffixes
Limits == 0..MaxLimit

None == <<>>
Some(x) == <<x>>
Option(S) == {None} \cup {Some(x) : x \in S}
Qtys == Option(0..MaxQty)

\* The value the test fixtures save under flat key i ("string-{i}").
FlatValue(i) == <<"string", i>>
\* The value the test fixtures save under composite key (p, i).
CompositeValue(k) == <<"string", k[2]>>

\* Every flat map, and every composite map, the fixtures can build.
FlatMaps == {[k \in S |-> FlatValue(k)] : S \in SUBSET Keys}
CompositeMaps == {[k \in S |-> CompositeValue(k)] : S \in SUBSET CompositeKeys}

\* What the storage holds, instead of a value, at a position whose key
\* bytes, or whose value bytes, do not decode.
UndecodableKey == <<"undecodable key", 0>>
UndecodableValue == <<"undecodable value", 0>>
Corruptions == {UndecodableKey, UndecodableValue}

\* The maps above with one entry overwritten by bytes that do not decode.
Corrupted(maps) ==
    UNION {{[m EXCEPT ![k] = c] : k \in DOMAIN m, c \in Corruptions} : m \in maps}

VARIABLES
    test_map,   \* the Map in storage: stored key -> stored value
    key_type,   \* "flat": Map<K, V>;  "composite": Map<(P, S), V>
    pc,         \* "idle": the caller holds nothing; "paged": it holds the page
                \* `result`; "failed": the call returned the error `result`;
                \* "iter": it holds the key iterator `result`
    request,    \* the request of the last call
    result,     \* what the last call returned
    emitted,    \* data of all pages of the traversal in progress, concatenated
    traversal,  \* TRUE while the chain of calls in progress began at start = None
    calls,      \* number of calls of the traversal in progress
    limits,     \* the effective limits the calls of the traversal used
    pulled,     \* entries the last into_pagination drew from the underlying scan
    transformed, \* keys the last into_pagination invoked the transform on, in order
    kept        \* stored keys that were in the map at every moment since the
                \* chain of calls in progress began

vars ==
    <<test_map, key_type, pc, request, result, emitted, traversal, calls,
      limits, pulled, transformed, kept>>

----------------------------------------------------------------------------
\* Helpers: ordered scans of the storage.

Min(a, b) == IF a < b THEN a ELSE b

\* The integers of S in ascending order (Order::Ascending): the i-th item
\* is the key with exactly i - 1 keys below it.
Ascending(S) ==
    [i \in 1..Cardinality(S) |->
        CHOOSE k \in S : Cardinality({j \in S : j < k}) = i - 1]

\* Lexicographic order of composite keys: the order of their encodings.
LexLess(a, b) == a[1] < b[1] \/ (a[1] = b[1] /\ a[2] < b[2])

\* The composite keys of S in ascending storage order.
AscendingComposite(S) ==
    [i \in 1..Cardinality(S) |->
        CHOOSE k \in S : Cardinality({j \in S : LexLess(j, k)}) = i - 1]

\* The items of the scan s, each decoded by Op; the scan is run once.
SeqMap(Op(_), s) ==
    CHOOSE r \in {[i \in 1..Len(t) |-> Op(t[i])] : t \in {s}} : TRUE

\* Faulty variant of AfterBound: Bound::Inclusive instead of Bound::Exclusive.
AfterBound_inclusive(k, min) == min = None \/ k >= min[1]

\* Bound::Exclusive(start): does key k lie inside the lower bound `min`?
AfterBound(k, min) == min = None \/ k > min[1]

----------------------------------------------------------------------------
\* The cw-storage-plus scans the three implementations open.  Every item
\* of a scan is a StdResult: the decoded entry, or the decode error.

Ok(x) == [ok |-> TRUE, val |-> x]
Err(e) == [ok |-> FALSE, err |-> e]

\* Decoding of the stored bytes at position k into a key.
Decode_key(k, stored) ==
    IF stored = UndecodableKey THEN Err("InvalidKey") ELSE Ok(k)

\* Decoding of the stored bytes at position k into (key, value).
Decode_kv(k, stored) ==
    IF stored = UndecodableKey THEN Err("InvalidKey")
    ELSE IF stored = UndecodableValue THEN Err("ParseErr")
    ELSE Ok(<<k, stored>>)

\* Faulty variant of Map_load: the stored bytes are handed out undecoded.
Map_load_lenient(map, key) == Ok(map[key])

\* map.load(storage, key): the point lookup of a decoded key.
Map_load(map, key) ==
    IF map[key] = UndecodableValue THEN Err("ParseErr") ELSE Ok(map[key])

\* Faulty variant of Positions: the scan seeks the stored entry of the
\* bound, and starts over at the first key when the bound's key is gone.
Positions_seek(map, min) ==
    IF min # None /\ min[1] \notin DOMAIN map
    THEN Ascending(DOMAIN map)
    ELSE SelectSeq(Ascending(DOMAIN map), LAMBDA k : AfterBound(k, min))

\* The positions of the flat map inside the bound, ascending.
Positions(map, min) ==
    SelectSeq(Ascending(DOMAIN map), LAMBDA k : AfterBound(k, min))

\* Faulty variant of Map_keys: Order::Descending.
Map_keys_descending(map, min) ==
    LET ks == Positions(map, min)
    IN [i \in 1..Len(ks) |->
           Decode_key(ks[Len(ks) + 1 - i], map[ks[Len(ks) + 1 - i]])]

\* map.keys(storage, min, None, Order::Ascending): the stored keys inside the
\* bound, ascending.
Map_keys(map, min) ==
    SeqMap(LAMBDA k : Decode_key(k, map[k]), Positions(map, min))

\* map.range(storage, min, None, Order::Ascending): the (key, value) entries
\* inside the bound, ascending by key.
Map_range(map, min) ==
    SeqMap(LAMBDA k : Decode_kv(k, map[k]), Positions(map, min))

\* Faulty variant of Map_prefix: the sub-range is not closed above, and runs
\* on into the larger prefixes.
Map_prefix_from(map, p) ==
    SeqMap(LAMBDA k : <<k[2], map[k]>>,
           SelectSeq(AscendingComposite(DOMAIN map), LAMBDA k : k[1] >= p))

\* Faulty variant of Map_prefix: the sub-range is not closed below, and
\* starts at the smaller prefixes.
Map_prefix_upto(map, p) ==
    SeqMap(LAMBDA k : <<k[2], map[k]>>,
           SelectSeq(AscendingComposite(DOMAIN map), LAMBDA k : k[1] <= p))

\* map.prefix(p): the contiguous sub-range of the composite keys that share
\* prefix p, in storage order: (suffix position, stored bytes).
Map_prefix(map, p) ==
    SeqMap(LAMBDA k : <<k[2], map[k]>>,
           SelectSeq(AscendingComposite(DOMAIN map), LAMBDA k : k[1] = p))

\* The part of the sub-range of p inside the bound.
Prefix_positions(map, p, min) ==
    SelectSeq(Map_prefix(map, p), LAMBDA e : AfterBound(e[1], min))

\* map.prefix(p).range(storage, min, None, Order::Ascending): (suffix, value).
Prefix_range(map, p, min) ==
    SeqMap(LAMBDA e : Decode_kv(e[1], e[2]), Prefix_positions(map, p, min))

\* map.prefix(p).keys(storage, min, None, Order::Ascending): suffixes.
Prefix_keys(map, p, min) ==
    SeqMap(LAMBDA e : Decode_key(e[1], e[2]), Prefix_positions(map, p, min))

\* Faulty variant of unwrap_or: LIMIT caps the override.
unwrap_or_capped(qty, LIMIT) == IF qty = None THEN LIMIT ELSE Min(qty[1], LIMIT)

\* self.qty.unwrap_or(LIMIT)
unwrap_or(qty, LIMIT) == IF qty = None THEN LIMIT ELSE qty[1]

\* Faulty variant of take: a limit of 0 still lets one item through.
take_at_least_one(items, n) ==
    [items |-> items, n |-> IF n = 0 THEN 1 ELSE n, pulled |-> 0]

\* Faulty variant of take: one item too many.
take_one_more(items, n) == [items |-> items, n |-> n + 1, pulled |-> 0]

\* iter.take(n): a std::iter::Take over the scan `items`; `pulled` counts the
\* items drawn from the underlying scan.
take(items, n) == [items |-> items, n |-> n, pulled |-> 0]

\* Faulty variant of Take_next: the scan is advanced before n is tested, so
\* the item behind the window is drawn and dropped.
Take_next_eager(it) ==
    IF it.items # <<>>
    THEN IF it.n # 0
         THEN [item |-> Some(Head(it.items)),
               iter |-> [items |-> Tail(it.items), n |-> it.n - 1,
                         pulled |-> it.pulled + 1]]
         ELSE [item |-> None,
               iter |-> [items |-> Tail(it.items), n |-> 0,
                         pulled |-> it.pulled + 1]]
    ELSE [item |-> None,
          iter |-> [items |-> <<>>, n |-> IF it.n # 0 THEN it.n - 1 ELSE 0,
                    pulled |-> it.pulled]]

\* Take::next: if n != 0 { n -= 1; iter.next() } else { None }.
\* Returns the item (an Option) and the iterator after the call.
Take_next(it) ==
    IF it.n # 0
    THEN IF it.items # <<>>
         THEN [item |-> Some(Head(it.items)),
               iter |-> [items |-> Tail(it.items), n |-> it.n - 1,
                         pulled |-> it.pulled + 1]]
         ELSE [item |-> None,
               iter |-> [items |-> <<>>, n |-> it.n - 1, pulled |-> it.pulled]]
    ELSE [item |-> None, iter |-> it]

\* The transform closure, FnOnce(&Key, Value) -> Data + Copy.  The pairing
\* function is the most general one: every other transform is a function
\* of it, and the data shows which key and value each call received.
transform(key, value) == <<key, value>>

\* NextPage { data, next: end, qty: len } / Pagination { .. }
NextPage(data, end) == [data |-> data, next |-> end, qty |-> Len(data)]

\* What one into_pagination call did: the StdResult it returned, the number
\* of entries it drew from the scan `iter`, and the keys it invoked the
\* transform on.
Outcome(res, iter, called) ==
    [result |-> res, pulled |-> iter.pulled, transformed |-> called]

\* The next iteration of a loop over the loop's variables `s`: the
\* variables are computed once, then the body runs on their values.
Iterate5(loop(_, _, _, _, _), s) ==
    CHOOSE out \in {loop(t[1], t[2], t[3], t[4], t[5]) : t \in {s}} : TRUE
Iterate6(loop(_, _, _, _, _, _), s) ==
    CHOOSE out \in {loop(t[1], t[2], t[3], t[4], t[5], t[6]) : t \in {s}} : TRUE

----------------------------------------------------------------------------
\* query.rs: Page

\* Page::keys: map.keys(storage, Exclusive(start), None, Ascending)
\*                 .take(qty.unwrap_or(LIMIT))
Page_keys(map, start, qty, LIMIT) ==
    take(Map_keys(map, start), unwrap_or(qty, LIMIT))

RECURSIVE Page_loop(_, _, _, _, _)
\* Faulty variant of Page_loop: the entry after which the scan ends is not
\* pushed.
Page_loop_drop_last(range, next, data, end, called) ==
    IF next = None
    THEN Outcome(Ok(NextPage(data, end)), range, called)
    ELSE IF ~next[1].ok
    THEN Outcome(Err(next[1].err), range, called)
    ELSE LET key == next[1].val[1]
             value == next[1].val[2]
             pull == Take_next(range)
             res == transform(key, value)
             end2 == IF pull.item = None THEN Some(key) ELSE end
             data2 == IF pull.item = None THEN data ELSE Append(data, res)
         IN Iterate5(Page_loop,
                     <<pull.iter, pull.item, data2, end2, Append(called, key)>>)

\* Faulty variant of Page_loop: end is set only when the limit cut the
\* scan, not when the scan ran out.
Page_loop_cursor_if_cut(range, next, data, end, called) ==
    IF next = None
    THEN Outcome(Ok(NextPage(data, end)), range, called)
    ELSE IF ~next[1].ok
    THEN Outcome(Err(next[1].err), range, called)
    ELSE LET key == next[1].val[1]
             value == next[1].val[2]
             pull == Take_next(range)
             res == transform(key, value)
             end2 == IF pull.item = None /\ range.n = 0 THEN Some(key) ELSE end
         IN Iterate5(Page_loop, <<pull.iter, pull.item, Append(data, res), end2,
                                 Append(called, key)>>)

\* Faulty variant of Page_loop: end is set only when the scan holds an
\* entry behind the window.
Page_loop_cursor_if_more(range, next, data, end, called) ==
    IF next = None
    THEN Outcome(Ok(NextPage(data, end)), range, called)
    ELSE IF ~next[1].ok
    THEN Outcome(Err(next[1].err), range, called)
    ELSE LET key == next[1].val[1]
             value == next[1].val[2]
             pull == Take_next(range)
             res == transform(key, value)
             end2 == IF pull.item = None /\ pull.iter.items # <<>>
                     THEN Some(key) ELSE end
         IN Iterate5(Page_loop, <<pull.iter, pull.item, Append(data, res), end2,
                                 Append(called, key)>>)

\* The `while let Some(key) = next` loop of Page::into_pagination.
Page_loop(range, next, data, end, called) ==
    IF next = None
    THEN Outcome(Ok(NextPage(data, end)), range, called)
    ELSE IF ~next[1].ok                            \* let (key, value) = key?;
    THEN Outcome(Err(next[1].err), range, called)
    ELSE LET key == next[1].val[1]
             value == next[1].val[2]
             pull == Take_next(range)              \* next = range.next();
             res == transform(key, value)
             end2 == IF pull.item = None THEN Some(key) ELSE end
         IN Iterate5(Page_loop, <<pull.iter, pull.item, Append(data, res), end2,
                                 Append(called, key)>>)

\* Page::into_pagination
Page_into_pagination(map, start, qty, LIMIT) ==
    LET range == take(Map_range(map, start), unwrap_or(qty, LIMIT))
        first == Take_next(range)                  \* let mut next = range.next();
    IN Iterate5(Page_loop, <<first.iter, first.item, <<>>, None, <<>>>>)

----------------------------------------------------------------------------
\* lib.rs: DefaultPage

\* DefaultPage::keys
DefaultPage_keys(map, start, qty, LIMIT) ==
    take(Map_keys(map, start), unwrap_or(qty, LIMIT))

RECURSIVE DefaultPage_loop(_, _, _, _, _, _)
\* Faulty variant of DefaultPage_loop: `if next.is_some()` instead of
\* `if next.is_none()`.
DefaultPage_loop_cursor_if_more(map, keys, next, data, end, called) ==
    IF next = None
    THEN Outcome(Ok(NextPage(data, end)), keys, called)
    ELSE IF ~next[1].ok
    THEN Outcome(Err(next[1].err), keys, called)
    ELSE LET key == next[1].val
             loaded == Map_load(map, key)
         IN IF ~loaded.ok
            THEN Outcome(Err(loaded.err), keys, called)
            ELSE LET res == transform(key, loaded.val)
                     pull == Take_next(keys)
                     end2 == IF pull.item # None THEN Some(key) ELSE end
                 IN Iterate6(DefaultPage_loop, <<map, pull.iter, pull.item,
                                                Append(data, res), end2, Append(called, key)>>)

\* Faulty variant of DefaultPage_loop: a key whose value does not load is
\* skipped (`if let Ok(value) = map.load(..)`) instead of `?`.
DefaultPage_loop_skip_failed(map, keys, next, data, end, called) ==
    IF next = None
    THEN Outcome(Ok(NextPage(data, end)), keys, called)
    ELSE IF ~next[1].ok
    THEN Outcome(Err(next[1].err), keys, called)
    ELSE LET key == next[1].val
             loaded == Map_load(map, key)
             pull == Take_next(keys)
             end2 == IF pull.item = None THEN Some(key) ELSE end
         IN IF ~loaded.ok
            THEN Iterate6(DefaultPage_loop,
                          <<map, pull.iter, pull.item, data, end2, called>>)
            ELSE Iterate6(DefaultPage_loop, <<map, pull.iter, pull.item,
                                             Append(data, transform(key, loaded.val)),
                                             end2, Append(called, key)>>)

\* The `loop { if let Some(key) = next { .. } else { break } }` of
\* DefaultPage::into_pagination; the value is a point load per key.
DefaultPage_loop(map, keys, next, data, end, called) ==
    IF next = None
    THEN Outcome(Ok(NextPage(data, end)), keys, called)
    ELSE IF ~next[1].ok                            \* let key = key?;
    THEN Outcome(Err(next[1].err), keys, called)
    ELSE LET key == next[1].val
             loaded == Map_load(map, key)          \* map.load(storage, key)?
         IN IF ~loaded.ok
            THEN Outcome(Err(loaded.err), keys, called)
            ELSE LET res == transform(key, loaded.val)
                     pull == Take_next(keys)       \* next = keys.next();
                     end2 == IF pull.item = None THEN Some(key) ELSE end
                 IN Iterate6(DefaultPage_loop, <<map, pull.iter, pull.item,
                                                Append(data, res), end2, Append(called, key)>>)

\* DefaultPage::into_pagination
DefaultPage_into_pagination(map, start, qty, LIMIT) ==
    LET keys == DefaultPage_keys(map, start, qty, LIMIT)
        first == Take_next(keys)
    IN Iterate6(DefaultPage_loop, <<map, first.iter, first.item, <<>>, None, <<>>>>)

----------------------------------------------------------------------------
\* prefix.rs: PrefixPage

\* PrefixPage::keys
PrefixPage_keys(map, prefix, start, qty, LIMIT) ==
    take(Prefix_keys(map, prefix, start), unwrap_or(qty, LIMIT))

RECURSIVE PrefixPage_loop(_, _, _, _, _)
\* Faulty variant of PrefixPage_loop: end is the first key of the page
\* (`if end.is_none()`), not the last.
PrefixPage_loop_first_key(keys, next, data, end, called) ==
    IF next = None
    THEN Outcome(Ok(NextPage(data, end)), keys, called)
    ELSE IF ~next[1].ok
    THEN Outcome(Err(next[1].err), keys, called)
    ELSE LET key == next[1].val[1]
             value == next[1].val[2]
             res == transform(key, value)
             pull == Take_next(keys)
             end2 == IF end = None THEN Some(key) ELSE end
         IN Iterate5(PrefixPage_loop, <<pull.iter, pull.item, Append(data, res), end2,
                                       Append(called, key)>>)

\* Faulty variant of PrefixPage_loop: the transform is applied to the
\* lookahead entry as soon as it is drawn, also when the page ends with it.
PrefixPage_loop_transform_ahead(keys, next, data, end, called) ==
    IF next = None
    THEN Outcome(Ok(NextPage(data, end)), keys, called)
    ELSE IF ~next[1].ok
    THEN Outcome(Err(next[1].err), keys, called)
    ELSE LET key == next[1].val[1]
             value == next[1].val[2]
             res == transform(key, value)
             pull == Take_next(keys)
             end2 == IF pull.item = None THEN Some(key) ELSE end
             ahead == IF keys.items # <<>> /\ Head(keys.items).ok
                      THEN <<Head(keys.items).val[1]>> ELSE <<>>
         IN Iterate5(PrefixPage_loop, <<pull.iter, pull.item, Append(data, res), end2,
                                       Append(called, key) \o
                                         (IF pull.item = None THEN ahead ELSE <<>>)>>)

\* The `while let Some(key) = next` loop of PrefixPage::into_pagination.
PrefixPage_loop(keys, next, data, end, called) ==
    IF next = None
    THEN Outcome(Ok(NextPage(data, end)), keys, called)
    ELSE IF ~next[1].ok                            \* let (key, value) = key?;
    THEN Outcome(Err(next[1].err), keys, called)
    ELSE LET key == next[1].val[1]
             value == next[1].val[2]
             res == transform(key, value)
             pull == Take_next(keys)               \* next = keys.next();
             end2 == IF pull.item = None THEN Some(key) ELSE end
         IN Iterate5(PrefixPage_loop, <<pull.iter, pull.item, Append(data, res), end2,
                                       Append(called, key)>>)

\* PrefixPage::into_pagination
PrefixPage_into_pagination(map, prefix, start, qty, LIMIT) ==
    LET keys == take(Prefix_range(map, prefix, start), unwrap_or(qty, LIMIT))
        first == Take_next(keys)
    IN Iterate5(PrefixPage_loop, <<first.iter, first.item, <<>>, None, <<>>>>)

----------------------------------------------------------------------------
\* The state machine: a caller issuing requests against one Map.

\* Cursors a request may carry: on the maps that hold them they are stored
\* keys, on the others keys not stored, below, between or above the stored
\* ones.
Cursors == Keys
SuffixCursors == Suffixes

NoRequest ==
    [impl |-> "none", op |-> "none", prefix |-> None, start |-> None,
     qty |-> None, LIMIT |-> 0]
NoResult == NextPage(<<>>, None)

Request(impl, op, prefix, start, qty, LIMIT) ==
    [impl |-> impl, op |-> op, prefix |-> prefix, start |-> start,
     qty |-> qty, LIMIT |-> LIMIT]

\* The caller before its first request.
Idle ==
    /\ pc = "idle"
    /\ request = NoRequest
    /\ result = NoResult
    /\ emitted = <<>>
    /\ traversal = FALSE
    /\ calls = 0
    /\ limits = {}
    /\ pulled = 0
    /\ transformed = <<>>
    /\ kept = DOMAIN test_map

\* The maps of the fixtures: every entry decodes.
Init ==
    /\ \/ key_type = "flat" /\ test_map \in FlatMaps
       \/ key_type = "composite" /\ test_map \in CompositeMaps
    /\ Idle

\* The same maps, and those with one entry that does not decode.
InitErr ==
    /\ \/ key_type = "flat" /\ test_map \in FlatMaps \cup Corrupted(FlatMaps)
       \/ key_type = "composite"
            /\ test_map \in CompositeMaps \cup Corrupted(CompositeMaps)
    /\ Idle

\* A request is either a first one, with any start, or the follow-up of the
\* page the caller holds: same request type, start = that page's next.
MayRequest(impl, prefix, start) ==
    \/ pc = "idle"
    \/ /\ pc = "paged"
       /\ request.impl = impl
       /\ request.prefix = prefix
       /\ result.next # None
       /\ start = result.next

\* Faulty variant of Paged: the entries of the page are removed from the
\* map as they are handed out.
Paged_consuming(req, res) ==
    LET follow == pc = "paged"
        trav == IF follow THEN traversal ELSE req.start = None
        gone == IF req.impl = "PrefixPage"
                THEN {<<req.prefix[1], res.data[i][1]>> : i \in 1..Len(res.data)}
                ELSE {res.data[i][1] : i \in 1..Len(res.data)}
    IN /\ pc' = "paged"
       /\ result' = res
       /\ traversal' = trav
       /\ emitted' = IF trav THEN (IF follow THEN emitted ELSE <<>>) \o res.data
                     ELSE <<>>
       /\ calls' = IF trav THEN (IF follow THEN calls ELSE 0) + 1 ELSE 0
       /\ limits' = IF trav
                    THEN (IF follow THEN limits ELSE {})
                           \cup {unwrap_or(req.qty, req.LIMIT)}
                    ELSE {}
       /\ kept' = IF follow THEN kept ELSE DOMAIN test_map
       /\ test_map' = [k \in DOMAIN test_map \ gone |-> test_map[k]]
       /\ UNCHANGED key_type

\* The caller receives page `res` for request `req`; a chain of calls that
\* began with start = None collects the data of its pages.
Paged(req, res) ==
    LET follow == pc = "paged"
        trav == IF follow THEN traversal ELSE req.start = None
    IN /\ pc' = "paged"
       /\ result' = res
       /\ traversal' = trav
       /\ emitted' = IF trav THEN (IF follow THEN emitted ELSE <<>>) \o res.data
                     ELSE <<>>
       /\ calls' = IF trav THEN (IF follow THEN calls ELSE 0) + 1 ELSE 0
       /\ limits' = IF trav
                    THEN (IF follow THEN limits ELSE {})
                           \cup {unwrap_or(req.qty, req.LIMIT)}
                    ELSE {}
       /\ kept' = IF follow THEN kept ELSE DOMAIN test_map
       /\ UNCHANGED <<test_map, key_type>>

\* The caller receives the error `err` for request `req`, and with it no
\* page: the chain of calls ends.
Failed(req, err) ==
    /\ pc' = "failed"
    /\ result' = [err |-> err]
    /\ emitted' = <<>>
    /\ traversal' = FALSE
    /\ calls' = 0
    /\ limits' = {}
    /\ kept' = DOMAIN test_map
    /\ UNCHANGED <<test_map, key_type>>

\* The caller receives what the into_pagination call `out` returned.
Returned(req, out) ==
    /\ request' = req
    /\ \E o \in {out} :
          /\ IF o.result.ok THEN Paged(req, o.result.val)
                            ELSE Failed(req, o.result.err)
          /\ pulled' = o.pulled
          /\ transformed' = o.transformed

\* The caller receives the iterator `it` of a keys() request.
Iterating(req, it) ==
    /\ pc = "idle"
    /\ pc' = "iter"
    /\ request' = req
    /\ result' = [iter |-> it, yielded |-> <<>>, nones |-> 0, errs |-> 0]
    /\ UNCHANGED <<test_map, key_type, emitted, traversal, calls, limits,
                   pulled, transformed, kept>>

PageIntoPagination(start, qty, LIMIT) ==
    /\ key_type = "flat"
    /\ MayRequest("Page", None, start)
    /\ Returned(Request("Page", "into_pagination", None, start, qty, LIMIT),
                Page_into_pagination(test_map, start, qty, LIMIT))

DefaultPageIntoPagination(start, qty, LIMIT) ==
    /\ key_type = "flat"
    /\ MayRequest("DefaultPage", None, start)
    /\ Returned(Request("DefaultPage", "into_pagination", None, start, qty, LIMIT),
                DefaultPage_into_pagination(test_map, start, qty, LIMIT))

PrefixPageIntoPagination(prefix, start, qty, LIMIT) ==
    /\ key_type = "composite"
    /\ MayRequest("PrefixPage", Some(prefix), start)
    /\ Returned(Request("PrefixPage", "into_pagination", Some(prefix), start,
                        qty, LIMIT),
                PrefixPage_into_pagination(test_map, prefix, start, qty, LIMIT))

PageKeys(start, qty, LIMIT) ==
    /\ key_type = "flat"
    /\ Iterating(Request("Page", "keys", None, start, qty, LIMIT),
                 Page_keys(test_map, start, qty, LIMIT))

DefaultPageKeys(start, qty, LIMIT) ==
    /\ key_type = "flat"
    /\ Iterating(Request("DefaultPage", "keys", None, start, qty, LIMIT),
                 DefaultPage_keys(test_map, start, qty, LIMIT))

PrefixPageKeys(prefix, start, qty, LIMIT) ==
    /\ key_type = "composite"
    /\ Iterating(Request("PrefixPage", "keys", Some(prefix), start, qty, LIMIT),
                 PrefixPage_keys(test_map, prefix, start, qty, LIMIT))

\* The caller's keys.next() on the iterator it holds; it keeps calling a
\* bounded number of times after the iterator returned None.
KeysNext ==
    /\ pc = "iter"
    /\ result.nones < MaxNones
    /\ LET pull == Take_next(result.iter)
       IN result' = [iter |-> pull.iter,
                     yielded |-> IF pull.item # None /\ pull.item[1].ok
                                 THEN Append(result.yielded, pull.item[1].val)
                                 ELSE result.yielded,
                     nones |-> IF pull.item = None THEN result.nones + 1
                               ELSE result.nones,
                     errs |-> IF pull.item # None /\ ~pull.item[1].ok
                              THEN result.errs + 1 ELSE result.errs]
    /\ UNCHANGED <<test_map, key_type, pc, request, emitted, traversal, calls,
                   limits, pulled, transformed, kept>>

\* The caller drops the page, the error or the iterator it holds.
Finish ==
    /\ pc # "idle"
    /\ pc' = "idle"
    /\ request' = NoRequest
    /\ result' = NoResult
    /\ emitted' = <<>>
    /\ traversal' = FALSE
    /\ calls' = 0
    /\ limits' = {}
    /\ pulled' = 0
    /\ transformed' = <<>>
    /\ kept' = DOMAIN test_map
    /\ UNCHANGED <<test_map, key_type>>

Next ==
    \/ \E start \in Option(Cursors), qty \in Qtys, LIMIT \in Limits :
          \/ PageIntoPagination(start, qty, LIMIT)
          \/ DefaultPageIntoPagination(start, qty, LIMIT)
          \/ PageKeys(start, qty, LIMIT)
          \/ DefaultPageKeys(start, qty, LIMIT)
    \/ \E prefix \in Prefixes, start \in Option(SuffixCursors),
          qty \in Qtys, LIMIT \in Limits :
          \/ PrefixPageIntoPagination(prefix, start, qty, LIMIT)
          \/ PrefixPageKeys(prefix, start, qty, LIMIT)
    \/ KeysNext
    \/ Finish

Spec == Init /\ [][Next]_vars

\* The calls against maps that may hold an entry that does not decode: the
\* three into_pagination and the keys() of the flat maps.  The request types
\* of the flat maps have LIMIT = MaxQty + 1, so that a window has a first, a
\* middle and a last entry; those of the prefixes have LIMIT = MaxLimit.
ErrLimit == MaxQty + 1

NextErr ==
    \/ \E start \in Option(Cursors), qty \in Qtys :
          \/ PageIntoPagination(start, qty, ErrLimit)
          \/ DefaultPageIntoPagination(start, qty, ErrLimit)
          \/ PageKeys(start, qty, ErrLimit)
          \/ DefaultPageKeys(start, qty, ErrLimit)
    \/ \E prefix \in Prefixes, start \in Option(SuffixCursors), qty \in Qtys :
          PrefixPageIntoPagination(prefix, start, qty, MaxLimit)
    \/ KeysNext
    \/ Finish

SpecErr == InitErr /\ [][NextErr]_vars

\* The loop of a client that follows the cursors: a first into_pagination
\* call with any start, then start = next for as long as the page returned
\* has a next.  The request types have LIMIT = MaxLimit, every call has an
\* effective limit of at least 1, and the store does not change.  The loop
\* keeps running, hence the weak fairness.
PositiveQtys == Option(1..MaxQty)

NextTraverse ==
    \/ \E start \in Option(Cursors), qty \in PositiveQtys :
          PageIntoPagination(start, qty, MaxLimit)
    \/ \E start \in Option(Cursors), qty \in PositiveQtys :
          DefaultPageIntoPagination(start, qty, MaxLimit)
    \/ \E prefix \in Prefixes, start \in Option(SuffixCursors),
          qty \in PositiveQtys :
          PrefixPageIntoPagination(prefix, start, qty, MaxLimit)

SpecTraverse == Init /\ [][NextTraverse]_vars /\ WF_vars(NextTraverse)

\* A traversal whose store other transactions write between its pages.
\* Each into_pagination call is one uninterrupted step; between two calls of
\* the chain an entry may be saved under a key the map does not hold, or an
\* entry (the cursor's too) may be removed, anywhere in the keyspace the
\* chain traverses.

\* While the traversal waits between two of its pages.
BetweenPages == pc = "paged" /\ traversal /\ result.next # None

\* The keys the other transactions write: those of the keyspace under
\* traversal, the whole flat map or the sub-range of the request's prefix.
StorableKeys ==
    IF key_type = "flat" THEN Keys
    ELSE {k \in CompositeKeys : request.prefix = Some(k[1])}

\* The value the fixtures save under key k.
SavedValue(k) == IF key_type = "flat" THEN FlatValue(k) ELSE CompositeValue(k)

\* test_map.save(storage, k, value) of a key the map does not hold.
Save(k) ==
    /\ BetweenPages
    /\ k \in StorableKeys \ DOMAIN test_map
    /\ test_map' = [j \in DOMAIN test_map \cup {k} |->
                        IF j = k THEN SavedValue(k) ELSE test_map[j]]
    /\ UNCHANGED <<key_type, pc, request, result, emitted, traversal, calls,
                   limits, pulled, transformed, kept>>

\* test_map.remove(storage, k) of a key the map holds.
Remove(k) ==
    /\ BetweenPages
    /\ k \in DOMAIN test_map
    /\ test_map' = [j \in DOMAIN test_map \ {k} |-> test_map[j]]
    /\ kept' = kept \ {k}
    /\ UNCHANGED <<key_type, pc, request, result, emitted, traversal, calls,
                   limits, pulled, transformed>>

\* A chain of calls begins at start = None.
FromTheBeginning(start) == pc = "idle" => start = None

NextMutate ==
    \/ \E start \in Option(Cursors), qty \in PositiveQtys :
          FromTheBeginning(start) /\ PageIntoPagination(start, qty, MaxLimit)
    \/ \E start \in Option(Cursors), qty \in PositiveQtys :
          FromTheBeginning(start)
            /\ DefaultPageIntoPagination(start, qty, MaxLimit)
    \/ \E prefix \in Prefixes, start \in Option(SuffixCursors),
          qty \in PositiveQtys :
          FromTheBeginning(start)
            /\ PrefixPageIntoPagination(prefix, start, qty, MaxLimit)
    \/ \E k \in StorableKeys : Save(k)
    \/ \E k \in StorableKeys : Remove(k)

SpecMutate == Init /\ [][NextMutate]_vars

----------------------------------------------------------------------------
\* Vocabulary of the properties, stated on the Map itself and not on the
\* scans of the implementations.

\* The keyspace a request ranges over: the whole map, or the suffixes of the
\* composite keys under the request's prefix.
Keyspace(req) ==
    IF req.impl = "PrefixPage"
    THEN {k[2] : k \in {c \in DOMAIN test_map : c[1] = req.prefix[1]}}
    ELSE DOMAIN test_map

\* The value stored under key (or suffix) k of the request's keyspace.
StoredValue(req, k) ==
    IF req.impl = "PrefixPage" THEN test_map[<<req.prefix[1], k>>] ELSE test_map[k]

\* The keys of the keyspace strictly after the request's start.
After(req) ==
    {k \in Keyspace(req) : req.start = None \/ k > req.start[1]}

\* The effective limit: the qty override if given, else LIMIT.
EffectiveLimit(req) == IF req.qty = None THEN req.LIMIT ELSE req.qty[1]

\* The keys a page emitted (the transform pairs each key with its value).
PageKeysOf(data) == [i \in 1..Len(data) |-> data[i][1]]

\* The last call was an into_pagination and the caller holds its page.
HoldsPage == pc = "paged"
\* The last call was a keys() and the caller holds its iterator.
HoldsIter == pc = "iter"

\* ks lists, ascending and without a gap, the n smallest keys of the set A.
IsFirstN(ks, A, n) ==
    /\ Len(ks) = n
    /\ \A i \in 1..Len(ks) : ks[i] \in A
    /\ \A i, j \in 1..Len(ks) : i < j => ks[i] < ks[j]
    /\ \A k \in A : \A i \in 1..Len(ks) : k < ks[i] => \E j \in 1..Len(ks) : ks[j] = k

\* The fixture of the tests: keys 0..99, LIMIT 20, then start = next, qty 15.
Scenario ==
    LET map == [k \in 0..99 |-> FlatValue(k)]
        p1 == Page_into_pagination(map, None, None, 20).result.val
        p2 == Page_into_pagination(map, p1.next, Some(15), 30).result.val
    IN /\ PageKeysOf(p1.data) = [i \in 1..20 |-> i - 1]
       /\ p1.next = Some(19)
       /\ p1.qty = 20
       /\ PageKeysOf(p2.data) = [i \in 1..15 |-> i + 19]
       /\ p2.next = Some(34)

\* C1: every page of into_pagination is the transform applied, in ascending
\* key order, to exactly the first min(L, m) entries strictly after start
\* (m = number of such entries), nothing skipped and nothing else included;
\* on keys 0..99 the two calls of the tests return keys 0..19 / next 19 and
\* keys 20..34 / next 34.
C1_WindowIsFirstEntriesAfterStart ==
    /\ HoldsPage =>
         LET A == After(request)
             L == EffectiveLimit(request)
             ks == PageKeysOf(result.data)
         IN /\ IsFirstN(ks, A, Min(L, Cardinality(A)))
            /\ \A i \in 1..Len(ks) :
                 result.data[i] = transform(ks[i], StoredValue(request, ks[i]))
    /\ Scenario

\* C1 witness: a start that is not a stored key, with more entries after it
\* than the limit, and a page of two entries.
C1_Witness ==
    /\ HoldsPage
    /\ request.start # None
    /\ request.start[1] \notin Keyspace(request)
    /\ EffectiveLimit(request) = 2
    /\ Cardinality(After(request)) > 2
    /\ Len(result.data) = 2

\* C2: a request whose start is a stored key k emits only keys strictly
\* greater than k (into_pagination and keys, flat and prefix), and the page
\* that follows a page through its next cursor does not contain the last
\* key of that page.
C2_StartIsExclusive ==
    /\ [](HoldsPage /\ request.start # None /\ request.start[1] \in Keyspace(request)
            => \A i \in 1..Len(result.data) : result.data[i][1] > request.start[1])
    /\ [](HoldsIter /\ request.start # None /\ request.start[1] \in Keyspace(request)
            => \A i \in 1..Len(result.yielded) : result.yielded[i] > request.start[1])
    /\ [][HoldsPage /\ pc' = "paged" /\ result.data # <<>>
            => \A i \in 1..Len(result'.data) :
                 result'.data[i][1] # result.data[Len(result.data)][1]]_vars

\* C2 witness: a page requested with a stored start key, holding entries,
\* while the keyspace also holds that key and keys below it.
C2_Witness ==
    /\ HoldsPage
    /\ request.impl = "PrefixPage"
    /\ request.start # None
    /\ request.start[1] \in Keyspace(request)
    /\ result.data # <<>>
    /\ calls >= 2

\* The keys of the keyspace, ascending: what a complete traversal emits.
IsWholeKeyspace(ks, req) == IsFirstN(ks, Keyspace(req), Cardinality(Keyspace(req)))

\* C3 as stated: a traversal from start = None through the next cursors, with
\* any effective limit, has emitted the whole keyspace exactly once, in
\* ascending order, when a page returns next = None.
C3_Original_TraversalComplete ==
    HoldsPage /\ traversal /\ result.next = None
        => IsWholeKeyspace(PageKeysOf(emitted), request)

\* C3 amended: the same, for traversals whose calls use an effective limit
\* of at least 1 (a call with limit 0 returns next = None at once, so only
\* the last call of a chain can have limit 0).
C3_TraversalCompleteWithPositiveLimit ==
    HoldsPage /\ traversal /\ result.next = None /\ EffectiveLimit(request) >= 1
        => /\ IsWholeKeyspace(PageKeysOf(emitted), request)
           /\ \A i \in 1..Len(emitted) :
                emitted[i] = transform(emitted[i][1], StoredValue(request, emitted[i][1]))

\* C3 witness: a finished traversal of at least three calls over at least
\* three entries.
C3_Witness ==
    /\ HoldsPage
    /\ traversal
    /\ result.next = None
    /\ EffectiveLimit(request) >= 1
    /\ calls >= 3
    /\ Len(emitted) >= 3

\* C4: every page has qty = data.len() and data.len() <= effective limit.
C4_BoundedSize ==
    HoldsPage =>
        /\ result.qty = Len(result.data)
        /\ Len(result.data) <= EffectiveLimit(request)

\* C4 witness: a page cut by the limit while more entries follow.
C4_Witness ==
    /\ HoldsPage
    /\ request.impl = "DefaultPage"
    /\ EffectiveLimit(request) >= 1
    /\ Len(result.data) = EffectiveLimit(request)
    /\ Cardinality(After(request)) > EffectiveLimit(request)

\* C5: without a qty the page holds min(LIMIT, m) entries; with qty = Some(q)
\* it holds min(q, m) entries, whether q is below, at or above LIMIT.
C5_DefaultAndOverride ==
    HoldsPage =>
        LET m == Cardinality(After(request))
        IN /\ request.qty = None => Len(result.data) = Min(request.LIMIT, m)
           /\ request.qty # None => Len(result.data) = Min(request.qty[1], m)

\* C5 witness: an override above LIMIT returns more than LIMIT entries.
C5_Witness ==
    /\ HoldsPage
    /\ request.qty # None
    /\ request.qty[1] > request.LIMIT
    /\ request.LIMIT >= 1
    /\ Len(result.data) > request.LIMIT

\* C6: when at least effective_limit (>= 1) entries lie after start, next is
\* Some(key of the effective_limit-th entry after start), whether or not an
\* entry follows it.
C6_CursorWhenFilled ==
    HoldsPage =>
        LET A == After(request)
            L == EffectiveLimit(request)
        IN L >= 1 /\ Cardinality(A) >= L
             => /\ result.next # None
                /\ result.next[1] \in A
                /\ Cardinality({k \in A : k < result.next[1]}) = L - 1
                /\ result.next[1] = result.data[Len(result.data)][1]

\* C6 witness: the window is filled exactly at the end of the keyspace.
C6_Witness ==
    /\ HoldsPage
    /\ EffectiveLimit(request) >= 2
    /\ Cardinality(After(request)) = EffectiveLimit(request)
    /\ result.next # None

\* C7 as stated: when fewer than effective_limit entries lie after start,
\* the page has next = None.
C7_Claim_NoCursorWhenExhausted ==
    HoldsPage /\ Cardinality(After(request)) < EffectiveLimit(request)
        => result.next = None

\* C8 as stated: next is Some exactly when the page holds effective_limit
\* entries and a stored key follows the last emitted key.
C8_Claim_CursorIffMoreFollows ==
    HoldsPage =>
        (result.next # None
           <=> /\ Len(result.data) = EffectiveLimit(request)
               /\ result.data # <<>>
               /\ \E k \in Keyspace(request) : k > result.data[Len(result.data)][1])

\* C9: with no entry after start (empty keyspace, empty prefix sub-range,
\* start at or above the last key) the page is { data: [], next: None,
\* qty: 0 }, for every effective limit.
C9_EmptyInput ==
    HoldsPage /\ After(request) = {}
        => result = [data |-> <<>>, next |-> None, qty |-> 0]

\* C9 witness: a prefix with no entry on a map that holds entries under a
\* larger prefix, requested without a start and with a positive limit.
C9_Witness ==
    /\ HoldsPage
    /\ request.impl = "PrefixPage"
    /\ request.start = None
    /\ Keyspace(request) = {}
    /\ \E k \in DOMAIN test_map : k[1] > request.prefix[1]
    /\ EffectiveLimit(request) >= 1
    /\ result.data = <<>>

\* What PrefixPage emitted: the suffixes of a page, or those an iterator
\* yielded so far.
PrefixEmitted == IF HoldsPage THEN PageKeysOf(result.data) ELSE result.yielded

\* C10: a PrefixPage request with prefix p emits only suffixes of entries
\* stored under p (never an entry of another prefix, even with a limit above
\* the size of p's sub-range), pairs each with the value stored under
\* (p, suffix), returns a next that is such a suffix, and compares start
\* with the suffixes under p only.
C10_PrefixIsolation ==
    (HoldsPage \/ HoldsIter) /\ request.impl = "PrefixPage" =>
        LET p == request.prefix[1]
            ks == PrefixEmitted
        IN /\ \A i \in 1..Len(ks) :
                /\ ks[i] \in Suffixes
                /\ <<p, ks[i]>> \in DOMAIN test_map
                /\ request.start # None => ks[i] > request.start[1]
           /\ Len(ks) <= Cardinality({k \in DOMAIN test_map : k[1] = p})
           /\ HoldsPage =>
                /\ \A i \in 1..Len(ks) : result.data[i][2] = test_map[<<p, ks[i]>>]
                /\ result.next # None => <<p, result.next[1]>> \in DOMAIN test_map
                /\ Len(ks) = Min(EffectiveLimit(request), Cardinality(After(request)))
           /\ HoldsIter /\ result.nones > 0 =>
                Len(ks) = Min(EffectiveLimit(request), Cardinality(After(request)))

\* C10 witness: a page under prefix p that holds the entries of p, with a
\* limit above the size of p's sub-range, on a map that holds under a
\* smaller prefix a suffix that p does not have.
C10_Witness ==
    /\ HoldsPage
    /\ request.impl = "PrefixPage"
    /\ result.data # <<>>
    /\ EffectiveLimit(request) > Cardinality(Keyspace(request))
    /\ \E k \in DOMAIN test_map :
          k[1] < request.prefix[1] /\ k[2] \notin Keyspace(request)

----------------------------------------------------------------------------
\* Failures, iterators, transform calls and cursors.

\* The last call was an into_pagination and it returned an error.
HoldsError == pc = "failed"

\* The window of a request: the first effective_limit keys after start.
Window(req) ==
    {k \in After(req) :
        Cardinality({j \in After(req) : j < k}) < EffectiveLimit(req)}

\* The entries of the window whose stored bytes do not decode.
Undecodable(req) == {k \in Window(req) : StoredValue(req, k) \in Corruptions}

\* The error reading the entry at k raises.
ErrorAt(req, k) ==
    IF StoredValue(req, k) = UndecodableKey THEN "InvalidKey" ELSE "ParseErr"

\* C11: when an entry of the window fails to decode, into_pagination returns
\* that error and no page, wherever the entry lies in the window and however
\* many entries were transformed before it; an Ok page is returned only when
\* every entry of the window decoded, and then it holds the whole window.
C11_NoPartialPageOnFailure ==
    HoldsPage \/ HoldsError =>
        LET bad == Undecodable(request)
        IN /\ bad # {} =>
                /\ HoldsError
                /\ DOMAIN result = {"err"}
                /\ \E k \in bad : result.err = ErrorAt(request, k)
           /\ HoldsPage =>
                /\ bad = {}
                /\ Len(result.data) = Cardinality(Window(request))
           /\ HoldsError => bad # {}

\* C11 witness: the call failed on the last entry of a window of three,
\* after the transform ran on the two entries before it.
C11_Witness ==
    /\ HoldsError
    /\ Cardinality(Window(request)) = 3
    /\ Len(transformed) = 2
    /\ \E k \in Undecodable(request) : \A j \in Window(request) : j <= k

\* What the implementation of the request returns on the store `map`.
ResultOn(map, req) ==
    IF req.impl = "Page"
    THEN Page_into_pagination(map, req.start, req.qty, req.LIMIT).result
    ELSE IF req.impl = "DefaultPage"
    THEN DefaultPage_into_pagination(map, req.start, req.qty, req.LIMIT).result
    ELSE PrefixPage_into_pagination(map, req.prefix[1], req.start, req.qty,
                                    req.LIMIT).result

\* The number of keys keys() has to yield: min(L, m).
KeysDue(req) == Min(EffectiveLimit(req), Cardinality(After(req)))

\* C12: the iterator of keys() (flat and prefix) yields the first min(L, m)
\* keys strictly after start, ascending and without a gap, one per call,
\* and None on every call after them; once it has returned None the keys it
\* yielded are the keys of the page into_pagination returns for the same
\* request.
C12_KeysYieldsTheWindow ==
    /\ [](HoldsIter =>
            /\ Len(result.yielded) <= KeysDue(request)
            /\ IsFirstN(result.yielded, After(request), Len(result.yielded))
            /\ result.errs = 0
            /\ result.nones > 0 =>
                 /\ Len(result.yielded) = KeysDue(request)
                 /\ result.yielded
                      = PageKeysOf(ResultOn(test_map, request).val.data))
    /\ [][HoldsIter /\ HoldsIter' =>
            IF Len(result.yielded) < KeysDue(request)
            THEN /\ Len(result'.yielded) = Len(result.yielded) + 1
                 /\ result'.nones = 0
            ELSE /\ result'.yielded = result.yielded
                 /\ result'.nones = result.nones + 1]_vars

\* C12 witness: an iterator over a keyspace with more keys than the limit,
\* opened behind a start bound, yielded its two keys and then returned None
\* twice.
C12_Witness ==
    /\ HoldsIter
    /\ request.start # None
    /\ Cardinality(After(request)) > EffectiveLimit(request)
    /\ Len(result.yielded) = 2
    /\ result.nones = 2

\* C13: in a successful into_pagination call the transform is invoked once
\* for each emitted entry and for no other: the keys it was invoked on, in
\* the order of the calls, are the keys of the returned data, ascending, and
\* their number is qty; the entry behind the window is not among them.
C13_TransformOncePerEmittedEntry ==
    HoldsPage =>
        /\ transformed = PageKeysOf(result.data)
        /\ Len(transformed) = result.qty
        /\ \A i, j \in 1..Len(transformed) : i < j => transformed[i] < transformed[j]
        /\ \A i \in 1..Len(transformed) : transformed[i] \in Window(request)

\* C13 witness: a page of two entries was returned while more entries
\* follow the window, and the transform ran twice.
C13_Witness ==
    /\ HoldsPage
    /\ Cardinality(After(request)) > EffectiveLimit(request)
    /\ result.qty = 2
    /\ Len(transformed) = 2

\* C14: with effective limit 0 (qty = Some(0), or LIMIT = 0 and no
\* override) into_pagination returns Ok { data: [], next: None, qty: 0 }
\* whatever the store and the start, draws no entry from the scan and does
\* not invoke the transform.
C14_ZeroLimit ==
    (HoldsPage \/ HoldsError) /\ EffectiveLimit(request) = 0 =>
        /\ HoldsPage
        /\ result = NextPage(<<>>, None)
        /\ result.qty = 0
        /\ pulled = 0
        /\ transformed = <<>>

\* C14 witness: a call with qty = Some(0) over a positive LIMIT returned
\* while entries lie after its start.
C14_Witness ==
    /\ HoldsPage
    /\ request.qty = Some(0)
    /\ request.LIMIT > 0
    /\ After(request) # {}
    /\ result.data = <<>>

\* The window of the request is filled exactly at the end of the keyspace:
\* exactly effective_limit >= 1 entries lie after start.
FilledAtTheEnd(req) ==
    /\ EffectiveLimit(req) >= 1
    /\ Cardinality(After(req)) = EffectiveLimit(req)

\* C15: a page whose window is filled exactly at the end of the keyspace
\* returns next = Some(last key of the keyspace); the follow-up call with
\* that cursor returns the empty page { data: [], next: None, qty: 0 }; and
\* a traversal of n entries whose every call had limit L, L dividing n,
\* ends after n/L + 1 calls.
C15_TrailingEmptyPage ==
    /\ [](HoldsPage /\ FilledAtTheEnd(request) =>
            /\ result.next # None
            /\ result.next[1] \in Keyspace(request)
            /\ \A k \in Keyspace(request) : k <= result.next[1])
    /\ [][HoldsPage /\ FilledAtTheEnd(request) /\ HoldsPage' =>
            /\ request'.start = result.next
            /\ result' = NextPage(<<>>, None)]_vars
    /\ [](HoldsPage /\ traversal /\ result.next = None =>
            \A L \in limits :
                LET n == Cardinality(Keyspace(request))
                IN limits = {L} /\ L >= 1 /\ n % L = 0 =>
                       calls = (n \div L) + 1)

\* C15 witness: a traversal of four entries with limit 2 on every call
\* ended with its third call, the empty page.
C15_Witness ==
    /\ HoldsPage
    /\ traversal
    /\ limits = {2}
    /\ Cardinality(Keyspace(request)) = 4
    /\ calls = 3
    /\ result = NextPage(<<>>, None)

\* The flat map that holds the suffixes of prefix p alone.
SuffixMap(p) ==
    [s \in {k[2] : k \in {c \in DOMAIN test_map : c[1] = p}} |-> test_map[<<p, s>>]]

\* The caller's result is the StdResult res: the same page, or both errors.
SameResult(res) ==
    IF res.ok THEN HoldsPage /\ result = res.val ELSE HoldsError

\* The requests (qty, LIMIT) with the effective limit L: LIMIT = L without
\* an override, or the override Some(L) over any LIMIT.
WithLimit(L) ==
    {<<None, L>>} \cup {<<Some(L), LIMIT>> : LIMIT \in Limits}

\* C16: on the same store, start and effective limit DefaultPage's
\* into_pagination (key scan and a load per key) returns what Page's
\* into_pagination (key-value range scan) returns: the same data, next and
\* qty, or both an error; and PrefixPage's into_pagination with prefix p
\* returns what Page's into_pagination returns on the flat map that holds
\* p's suffixes alone.
C16_ImplementationEquivalence ==
    HoldsPage \/ HoldsError =>
        \A q \in WithLimit(EffectiveLimit(request)) :
            /\ request.impl = "DefaultPage" =>
                 SameResult(Page_into_pagination(
                                test_map, request.start, q[1], q[2]).result)
            /\ request.impl = "PrefixPage" =>
                 SameResult(Page_into_pagination(
                                SuffixMap(request.prefix[1]), request.start,
                                q[1], q[2]).result)

\* C16 witness: a DefaultPage call failed on the load of the second entry of
\* its window, where the range scan of Page fails to decode the value.
C16_Witness ==
    /\ HoldsError
    /\ request.impl = "DefaultPage"
    /\ result.err = "ParseErr"
    /\ Len(transformed) = 1
    /\ ~Page_into_pagination(test_map, request.start, request.qty,
                             request.LIMIT).result.ok

\* The caller holds exactly the StdResult res: the page, or the error.
HoldsResult(res) ==
    IF res.ok THEN HoldsPage /\ result = res.val
              ELSE HoldsError /\ result.err = res.err

C18_CursorIsLastEmittedKey ==
    HoldsPage =>
        /\ result.next # None <=> result.data # <<>>
        /\ result.next = None <=> result.qty = 0
        /\ result.data # <<>> =>
             result.next = Some(result.data[Len(result.data)][1])

\* C18 witness: a page that stopped because the keyspace ran out before
\* the limit was reached still carries the key of its last entry as next.
C18_Witness ==
    /\ HoldsPage
    /\ request.impl = "Page"
    /\ Cardinality(After(request)) = 1
    /\ EffectiveLimit(request) = 2
    /\ result.qty = 1
    /\ result.next = Some(result.data[1][1])

\* The keys of the request's keyspace behind its window.
Beyond(req) == After(req) \ Window(req)

\* The store without the entries behind the window of the request.
WithoutBeyond(req) ==
    LET gone == IF req.impl = "PrefixPage"
                THEN {<<req.prefix[1], s>> : s \in Beyond(req)}
                ELSE Beyond(req)
    IN [k \in DOMAIN test_map \ gone |-> test_map[k]]

\* C19: one into_pagination call, and one keys() iterator however often its
\* next() is called, draws at most effective_limit entries from the scan,
\* all of them inside the window; so an undecodable entry behind the window
\* does not make the call fail, and the call returns what it returns on the
\* store without the entries behind the window.
C19_BoundedRead ==
    /\ HoldsPage \/ HoldsError =>
         /\ pulled <= EffectiveLimit(request)
         /\ pulled <= Cardinality(Window(request))
         /\ Undecodable(request) = {} => HoldsPage
         /\ HoldsResult(ResultOn(WithoutBeyond(request), request))
    /\ HoldsIter =>
         /\ result.iter.pulled <= EffectiveLimit(request)
         /\ result.iter.pulled <= Cardinality(Window(request))
         /\ (\A k \in Window(request) : StoredValue(request, k) # UndecodableKey)
               => result.errs = 0

\* C19 witness: a page of a full window of two was returned although the
\* entry right behind the window does not decode.
C19_Witness ==
    /\ HoldsPage
    /\ EffectiveLimit(request) = 2
    /\ pulled = 2
    /\ \E k \in Beyond(request) :
          /\ StoredValue(request, k) \in Corruptions
          /\ \A j \in Beyond(request) : k <= j

\* C20: a page requested with start = Some(c) that returns next = Some(c')
\* has c' > c, and c' is at least every key of the page; and the loop that
\* follows the cursors over an unchanging store, with an effective limit of
\* at least 1 on every call, eventually holds a page with next = None.
C20_CursorProgressAndTermination ==
    /\ [](HoldsPage /\ request.start # None /\ result.next # None =>
            /\ result.next[1] > request.start[1]
            /\ \A i \in 1..Len(result.data) : result.data[i][1] <= result.next[1])
    /\ <>(HoldsPage /\ result.next = None)

\* C20 witness: a loop that began at start = None followed two cursors,
\* each greater than the one before, and holds the page with next = None.
C20_Witness ==
    /\ HoldsPage
    /\ traversal
    /\ calls = 3
    /\ request.start # None
    /\ result.next = None
    /\ \E c \in Keyspace(request) : c < request.start[1]

----------------------------------------------------------------------------
\* Traversal of a store that is written between the pages.

\* The keys of the request's keyspace that were stored at every moment of
\* the traversal in progress.
KeptKeys(req) ==
    IF req.impl = "PrefixPage"
    THEN {k[2] : k \in {c \in kept : c[1] = req.prefix[1]}}
    ELSE kept

\* C21: in a traversal from start = None that chains its cursors, with an
\* effective limit of at least 1 on every call, while entries are saved and
\* removed between its pages (the cursor's entry too), the keys of the
\* concatenated pages are strictly ascending, so no key is emitted twice,
\* and once a page returns next = None every key that was stored during the
\* whole traversal has been emitted exactly once.
C21_TraversalUnderMutation ==
    HoldsPage /\ traversal /\ (\A L \in limits : L >= 1) =>
        LET ks == PageKeysOf(emitted)
        IN /\ \A i, j \in 1..Len(ks) : i < j => ks[i] < ks[j]
           /\ result.next = None =>
                \A k \in KeptKeys(request) :
                    Cardinality({i \in 1..Len(ks) : ks[i] = k}) = 1

\* C21 witness: a traversal of three calls ended after the entry of one of
\* its cursors was removed and an entry was saved behind the cursor, and a
\* key stored throughout was emitted.
C21_Witness ==
    /\ HoldsPage
    /\ traversal
    /\ calls = 3
    /\ result.next = None
    /\ KeptKeys(request) # {}
    /\ \E i \in 1..Len(emitted) : emitted[i][1] \notin Keyspace(request)
    /\ \E k \in Keyspace(request) :
          /\ k \notin KeptKeys(request)
          /\ \A i \in 1..Len(emitted) : emitted[i][1] # k

====
